---------------------------- MODULE Spec2Model ----------------------------
(* A model of src/encode-guesser/guess.ts: the backtracking guesser of the *)
(* parameter types of ABI-encoded data.  Buffers are sequences of bytes,    *)
(* type descriptors are trees, and the decoder is the recursive operator    *)
(* decodeWellFormedTuple; the state machine walks the decoder's call tree   *)
(* frame by frame and applies the two exported functions.                   *)
EXTENDS Integers, Sequences, FiniteSets, TLC

(***************************************************************************)
(* Bytes and words                                                         *)
(***************************************************************************)

\* the size of an ABI word in bytes
WordSize == 32

\* "number | null": the null of a length or of an expected length
Null == -1

\* every buffer of the model is shorter than Huge bytes; a word whose value is
\* Huge or more is kept as Huge (it is compared with buffer lengths only)
Huge == 256 * 256 * 256

Min(a, b) == IF a < b THEN a ELSE b

\* n zero bytes
Zeros(n) == [i \in 1..n |-> 0]

\* Uint8Array.prototype.slice(from, to) with 0 <= from (0-based, end exclusive)
Slice(data, from, to) ==
    LET e == Min(to, Len(data))
    IN  IF from >= e THEN <<>> ELSE SubSeq(data, from + 1, e)

\* the k-th byte from the end of a big-endian quantity, 0 when it has fewer bytes
ByteFromEnd(word, k) == IF k > Len(word) THEN 0 ELSE word[Len(word) + 1 - k]

\* val < BigInt(Number.MAX_SAFE_INTEGER), MAX_SAFE_INTEGER = 2^53 - 1 = 0x1FFFFFFFFFFFFF,
\* decided on the big-endian bytes of val
isSafeNumber(word) ==
    /\ \A k \in 8..Len(word) : ByteFromEnd(word, k) = 0
    /\ \/ ByteFromEnd(word, 7) < 31
       \/ /\ ByteFromEnd(word, 7) = 31
          /\ \E k \in 1..6 : ByteFromEnd(word, k) # 255

\* Number(BigInt(hexlify(word))): the big-endian value of the bytes, kept as Huge
\* from Huge on
ToNumber(word) ==
    IF \E k \in 4..Len(word) : ByteFromEnd(word, k) # 0
    THEN Huge
    ELSE ByteFromEnd(word, 3) * 65536 + ByteFromEnd(word, 2) * 256 + ByteFromEnd(word, 1)

\* try and parse an offset from the data
tryParseOffset(data, pos) ==
    LET word == Slice(data, pos, pos + WordSize)
        offset == ToNumber(word)
    IN  IF Len(word) = 0 THEN Null
        ELSE IF ~isSafeNumber(word) THEN Null
        ELSE IF offset <= pos \/ offset >= Len(data) THEN Null
        ELSE IF offset % 32 # 0 THEN Null
        ELSE offset

\* faulty variant: the length may run past the end of the data
tryParseLengthUnbounded(data, offset) ==
    LET word == Slice(data, offset, offset + WordSize)
        length == ToNumber(word)
    IN  IF Len(word) = 0 THEN Null
        ELSE IF ~isSafeNumber(word) THEN Null
        ELSE length

\* try and parse a length from the data
tryParseLength(data, offset) ==
    LET word == Slice(data, offset, offset + WordSize)
        length == ToNumber(word)
    IN  IF Len(word) = 0 THEN Null
        ELSE IF ~isSafeNumber(word) THEN Null
        ELSE IF offset + 32 + length > Len(data) THEN Null
        ELSE length

\* the zero bytes from the i-th byte up to the first byte that is not zero
countLeadingZerosFrom(arr, i) ==
    LET nonZero == {k \in i..Len(arr) : arr[k] # 0}
    IN  IF nonZero = {} THEN Len(arr) - i + 1
        ELSE (CHOOSE k \in nonZero : \A j \in nonZero : k <= j) - i

\* count the number of leading zeros
countLeadingZeros(arr) == countLeadingZerosFrom(arr, 1)

\* the zero bytes from the i-th byte down to the first byte that is not zero
countTrailingZerosFrom(arr, i) ==
    LET nonZero == {k \in 1..i : arr[k] # 0}
    IN  IF nonZero = {} THEN i
        ELSE i - (CHOOSE k \in nonZero : \A j \in nonZero : k >= j)

\* count the number of trailing zeros
countTrailingZeros(arr) == countTrailingZerosFrom(arr, Len(arr))


(***************************************************************************)
(* Type descriptors (ParamType) and their text format                      *)
(***************************************************************************)

\* a descriptor: its baseType ("array", "tuple" or the elementary type's name)
\* and its children (arrayChildren of an array, components of a tuple)
ParamType(base, kids) == [base |-> base, kids |-> kids]

Bytes32T == ParamType("bytes32", <<>>)
BytesT == ParamType("bytes", <<>>)
StringT == ParamType("string", <<>>)
AddressT == ParamType("address", <<>>)
Uint256T == ParamType("uint256", <<>>)

\* ParamType.from(`(${formatParams(params)})`)
TupleT(components) == ParamType("tuple", components)

\* ParamType.from(`${child.format()}[]`)
ArrayT(child) == ParamType("array", <<child>>)

\* ParamType.from('()[]'): the marker of a dynamic parameter of declared length 0
EmptyArrayT == ArrayT(TupleT(<<>>))

FixedBytesNames ==
    << "bytes1", "bytes2", "bytes3", "bytes4", "bytes5", "bytes6", "bytes7", "bytes8",
       "bytes9", "bytes10", "bytes11", "bytes12", "bytes13", "bytes14", "bytes15",
       "bytes16", "bytes17", "bytes18", "bytes19", "bytes20", "bytes21", "bytes22",
       "bytes23", "bytes24", "bytes25", "bytes26", "bytes27", "bytes28", "bytes29",
       "bytes30", "bytes31", "bytes32" >>

\* ParamType.from(`bytes${n}`); a size outside 1..32 names no type
FixedBytesT(n) ==
    IF n \in 1..32 THEN ParamType(FixedBytesNames[n], <<>>)
    ELSE ParamType("invalid", <<>>)

\* the number of characters of an elementary type's name
NameLength(name) ==
    CASE name = "bytes" -> 5
      [] name = "string" -> 6
      [] name = "address" -> 7
      [] name = "uint256" -> 7
      [] name = "invalid" -> 7
      [] name \in {FixedBytesNames[n] : n \in 1..9} -> 6
      [] OTHER -> 7

RECURSIVE format(_), formatJoin(_, _)
\* ParamType.format(): the text of a descriptor, as its sequence of tokens
\* (a name, "(", ",", ")" or "[]")
format(p) ==
    IF p.base = "array" THEN format(p.kids[1]) \o <<"[]">>
    ELSE IF p.base = "tuple" THEN <<"(">> \o formatJoin(p.kids, 1) \o <<")">>
    ELSE <<p.base>>

\* params.map((v) => v.format()).join(','), from the i-th on
formatJoin(params, i) ==
    IF i > Len(params) THEN <<>>
    ELSE IF i = Len(params) THEN format(params[i])
    ELSE format(params[i]) \o <<",">> \o formatJoin(params, i + 1)

formatParams(params) == formatJoin(params, 1)

RECURSIVE TokensLength(_, _)
TokensLength(tokens, i) ==
    IF i > Len(tokens) THEN 0
    ELSE (CASE tokens[i] \in {"(", ")", ","} -> 1
            [] tokens[i] = "[]" -> 2
            [] OTHER -> NameLength(tokens[i])) + TokensLength(tokens, i + 1)

\* p.format().length: the number of characters of the text
formatLength(p) == TokensLength(format(p), 1)

areParamsConsistent(params) ==
    Cardinality({format(params[i]) : i \in 1..Len(params)}) = 1


(***************************************************************************)
(* The external ABI codec (defaultAbiCoder.decode) and toUtf8String        *)
(***************************************************************************)

RECURSIVE Utf8ValidFrom(_, _)
\* toUtf8String(bytes) does not throw: every lead byte is followed by its
\* continuation bytes, with no overlong form and no lead byte above 0xF4
Utf8ValidFrom(bytes, i) ==
    IF i > Len(bytes) THEN TRUE
    ELSE LET b == bytes[i]
             extra == IF b < 128 THEN 0
                      ELSE IF b >= 194 /\ b <= 223 THEN 1
                      ELSE IF b >= 224 /\ b <= 239 THEN 2
                      ELSE IF b >= 240 /\ b <= 244 THEN 3
                      ELSE Null
         IN  /\ extra # Null
             /\ i + extra <= Len(bytes)
             /\ \A k \in 1..extra : bytes[i + k] >= 128 /\ bytes[i + k] <= 191
             /\ extra = 2 /\ b = 224 => bytes[i + 1] >= 160
             /\ extra = 2 /\ b = 237 => bytes[i + 1] <= 159
             /\ extra = 3 /\ b = 240 => bytes[i + 1] >= 144
             /\ extra = 3 /\ b = 244 => bytes[i + 1] <= 143
             /\ Utf8ValidFrom(bytes, i + 1 + extra)

Utf8Valid(bytes) == Utf8ValidFrom(bytes, 1)

RECURSIVE CoderIsDynamic(_)
\* Coder.dynamic: bytes, string and T[] are dynamic, a tuple is when a component is
CoderIsDynamic(p) ==
    IF p.base \in {"bytes", "string", "array"} THEN TRUE
    ELSE IF p.base = "tuple" THEN \E i \in 1..Len(p.kids) : CoderIsDynamic(p.kids[i])
    ELSE FALSE

\* a failed read or decode
CodecError == [ok |-> FALSE, val |-> <<>>, pos |-> 0]

CodecValue(val, pos) == [ok |-> TRUE, val |-> val, pos |-> pos]

\* Reader.readBytes(32): the word at pos, or an overrun
CodecReadWord(data, pos) ==
    IF pos + WordSize > Len(data) THEN CodecError
    ELSE CodecValue(SubSeq(data, pos + 1, pos + WordSize), pos + WordSize)

RECURSIVE CodecDecode(_, _, _), CodecUnpack(_, _, _, _, _, _)
\* Coder.decode(reader) for a descriptor p, the reader at byte pos of data.  The
\* value of a word-sized type is its word, of bytes/string its bytes, of an array
\* or a tuple the sequence of its elements' values.
CodecDecode(data, pos, p) ==
    IF p.base = "tuple" THEN CodecUnpack(data, pos, pos, p.kids, 1, <<>>)
    ELSE LET w == CodecReadWord(data, pos)
             n == ToNumber(w.val)
         IN  IF ~w.ok THEN CodecError
             ELSE IF p.base = "array"
             THEN IF ~isSafeNumber(w.val) \/ n * 32 > Len(data) - pos THEN CodecError
                  ELSE CodecUnpack(data, w.pos, w.pos, [i \in 1..n |-> p.kids[1]], 1, <<>>)
             ELSE IF p.base \in {"bytes", "string"}
             THEN LET aligned == ((n + WordSize - 1) \div WordSize) * WordSize
                      bytes == SubSeq(data, w.pos + 1, w.pos + n)
                  IN  IF ~isSafeNumber(w.val) \/ w.pos + aligned > Len(data) THEN CodecError
                      ELSE IF p.base = "string" /\ ~Utf8Valid(bytes) THEN CodecError
                      ELSE CodecValue(bytes, w.pos + aligned)
             ELSE IF p.base = "address" /\ countLeadingZeros(w.val) < 12 THEN CodecError
             ELSE IF p.base = "invalid" THEN CodecError
             ELSE w

\* unpack(reader, coders) from the i-th coder on: a dynamic coder is decoded at
\* the offset its word gives, counted from base; a static one in place
CodecUnpack(data, base, pos, coders, i, vals) ==
    IF i > Len(coders) THEN CodecValue(vals, pos)
    ELSE IF CoderIsDynamic(coders[i])
    THEN LET w == CodecReadWord(data, pos)
             v == CodecDecode(data, base + ToNumber(w.val), coders[i])
         IN  IF ~w.ok \/ ~isSafeNumber(w.val) THEN CodecError
             ELSE IF ~v.ok THEN CodecError
             ELSE CodecUnpack(data, base, w.pos, coders, i + 1, Append(vals, v.val))
    ELSE LET v == CodecDecode(data, pos, coders[i])
         IN  IF ~v.ok THEN CodecError
             ELSE CodecUnpack(data, base, v.pos, coders, i + 1, Append(vals, v.val))

\* defaultAbiCoder.decode(params, data), every decoded value read
AbiDecode(params, data) == CodecUnpack(data, 0, 0, params, 1, <<>>)


(***************************************************************************)
(* The backtracking decoder                                                *)
(***************************************************************************)

\* DynamicPlaceholder: a potential dynamic variable, its length Null when absent
Placeholder(offset, length) ==
    [dyn |-> TRUE, offset |-> offset, length |-> length, type |-> Bytes32T]

\* a DecodedParam that is a ParamType
Resolved(type) == [dyn |-> FALSE, offset |-> 0, length |-> Null, type |-> type]

\* "ParamType[] | null" and "ParamType | undefined"
NoParams == [ok |-> FALSE, list |-> <<>>]
Params(list) == [ok |-> TRUE, list |-> list]
Undefined == [ok |-> FALSE, type |-> Bytes32T]
Defined(type) == [ok |-> TRUE, type |-> type]

\* the arguments of one call of decodeWellFormedTuple; isDynamicArrayElement is
\* "null", "true" or "false"
Frame(data, paramIdx, collectedParams, endOfStaticCalldata, expectedLength, isDynamicArrayElement) ==
    [data |-> data, paramIdx |-> paramIdx, collectedParams |-> collectedParams,
     endOfStaticCalldata |-> endOfStaticCalldata, expectedLength |-> expectedLength,
     isDynamicArrayElement |-> isDynamicArrayElement]

\* the first call on a buffer
EntryFrame(data, endOfStaticCalldata, expectedLength, isDynamicArrayElement) ==
    Frame(data, 0, <<>>, endOfStaticCalldata, expectedLength, isDynamicArrayElement)

\* check if the generated params are valid by attempting to decode them
testParams(params, data) == params.ok /\ AbiDecode(params.list, data).ok

paramOffset(f) == f.paramIdx * 32

\* faulty variant: the slot at the end of the static calldata is walked too
inStaticRegionInclusive(f) == paramOffset(f) <= f.endOfStaticCalldata

inStaticRegion(f) == paramOffset(f) < f.endOfStaticCalldata

maybeOffset(f) == tryParseOffset(f.data, paramOffset(f))

maybeLength(f) == tryParseLength(f.data, maybeOffset(f))

\* the call that takes the slot as a dynamic variable
dynamicFrame(f, length) ==
    Frame(f.data, f.paramIdx + 1,
          Append(f.collectedParams, Placeholder(maybeOffset(f), length)),
          Min(f.endOfStaticCalldata, maybeOffset(f)), f.expectedLength,
          f.isDynamicArrayElement)

\* the call that takes the slot as a static word
staticFrame(f) ==
    Frame(f.data, f.paramIdx + 1, Append(f.collectedParams, Resolved(Bytes32T)),
          f.endOfStaticCalldata, f.expectedLength, f.isDynamicArrayElement)

\* the slot may be a dynamic variable with a length
mayHaveLength(f) ==
    /\ maybeOffset(f) # Null
    /\ maybeLength(f) # Null
    /\ f.isDynamicArrayElement \in {"null", "true"}

\* the slot may be a dynamic variable without a length
mayHaveNoLength(f) ==
    /\ maybeOffset(f) # Null
    /\ f.isDynamicArrayElement \in {"null", "false"}

\* faulty variant: a static word is assumed in every tuple
mayBeStaticAlways(f) == f.isDynamicArrayElement \in {"null", "true", "false"}

\* only assume it's static if we're allowed to
mayBeStatic(f) == f.isDynamicArrayElement = "null"

\* faulty variant: only a tuple with too many elements is rejected
lengthMismatchTooMany(f) ==
    f.expectedLength # Null /\ Len(f.collectedParams) > f.expectedLength

\* the tuple does not have the number of elements that was expected
lengthMismatch(f) ==
    f.expectedLength # Null /\ Len(f.collectedParams) # f.expectedLength

RECURSIVE findNextDynamicParam(_, _)
\* collectedParams.find((v, i) => i > idx && !isParamType(v)): its index from i on, 0 if none
findNextDynamicParam(collectedParams, i) ==
    IF i > Len(collectedParams) THEN 0
    ELSE IF collectedParams[i].dyn THEN i
    ELSE findNextDynamicParam(collectedParams, i + 1)

nextDynamicParam(f, idx) == findNextDynamicParam(f.collectedParams, idx + 1)

isTrailingDynamicParam(f, idx) == nextDynamicParam(f, idx) = 0

\* faulty variant: the length word is taken as part of the data
dynamicDataStartAtOffset(f, idx) == f.collectedParams[idx].offset

dynamicDataStart(f, idx) ==
    f.collectedParams[idx].offset + (IF f.collectedParams[idx].length # Null THEN 32 ELSE 0)

dynamicDataEnd(f, idx) ==
    IF isTrailingDynamicParam(f, idx) THEN Len(f.data)
    ELSE f.collectedParams[nextDynamicParam(f, idx)].offset

\* extract the data. note that this expects the data to not be overlapping
dynamicData(f, idx) == Slice(f.data, dynamicDataStart(f, idx), dynamicDataEnd(f, idx))

\* the data is a bytestring of the declared length, possibly right-padded to a word
isByteString(length, data) ==
    \/ length = Len(data)
    \/ Len(data) % 32 = 0 /\ length = Len(data) - countTrailingZeros(data)

RECURSIVE decodeWellFormedTuple(_)

\* an array of dynamically sized elements where each element has a length prefix
decodedAssumingLength(data, length) ==
    decodeWellFormedTuple(EntryFrame(data, Len(data), length, "true"))

\* an array of dynamically sized elements without a length prefix
decodedAssumingNoLength(data, length) ==
    decodeWellFormedTuple(EntryFrame(data, Len(data), length, "false"))

\* Math.floor(numWords / length), numWords = data.length / 32
wordsPerElement(data, length) == Len(data) \div (32 * length)

\* numWords % length !== 0, numWords = data.length / 32 possibly fractional
unevenDynamicData(data, length) ==
    ~(Len(data) % 32 = 0 /\ (Len(data) \div 32) % length = 0)

\* the call on the elemIdx-th (0-based) element of an array of static elements
staticElementFrame(data, length, elemIdx) ==
    LET w == wordsPerElement(data, length)
    IN  EntryFrame(Slice(data, elemIdx * w * 32, (elemIdx + 1) * w * 32), w * 32, Null, "null")

\* the type of an element decoded as params: undefined if it failed to decode or
\* has no field, a tuple if it has several
elementType(params) ==
    IF ~params.ok \/ Len(params.list) = 0 THEN Undefined
    ELSE IF Len(params.list) > 1 THEN Defined(TupleT(params.list))
    ELSE Defined(params.list[1])

\* the type of the elemIdx-th (0-based) element
staticElement(data, length, elemIdx) ==
    elementType(decodeWellFormedTuple(staticElementFrame(data, length, elemIdx)))

RECURSIVE staticParseParams(_, _, _, _), staticParseNext(_, _, _, _, _)
\* the loop over the elements from elemIdx on
staticParseParams(data, length, elemIdx, acc) ==
    IF elemIdx >= length THEN Params(acc)
    ELSE staticParseNext(data, length, elemIdx, acc, staticElement(data, length, elemIdx))

\* the loop stops at the first element that fails
staticParseNext(data, length, elemIdx, acc, element) ==
    IF ~element.ok THEN NoParams
    ELSE staticParseParams(data, length, elemIdx + 1, Append(acc, element.type))

\* an array of statically sized elements
decodedAssumingStatic(data, length, isTrailing) ==
    IF unevenDynamicData(data, length) /\ ~isTrailing THEN NoParams
    ELSE staticParseParams(data, length, 0, <<>>)

\* allResults.push(decoded) if the interpretation produced a result
pushResult(results, decoded) == IF decoded.ok THEN Append(results, decoded.list) ELSE results

\* the results of the three interpretations that produced one, in their order
allResults(assumingLength, assumingNoLength, assumingStatic) ==
    pushResult(pushResult(pushResult(<<>>, assumingLength), assumingNoLength), assumingStatic)


RECURSIVE consistentFirsts(_, _)
\* .filter((results) => areParamsConsistent(results)).map((v) => v[0]), from the i-th on
consistentFirsts(results, i) ==
    IF i > Len(results) THEN <<>>
    ELSE (IF areParamsConsistent(results[i]) THEN <<results[i][1]>> ELSE <<>>)
             \o consistentFirsts(results, i + 1)

RECURSIVE insertByFormatLength(_, _, _)
\* types, sorted, with p put after the types from the i-th on that are not longer
insertByFormatLength(types, p, i) ==
    IF i > Len(types) THEN Append(types, p)
    ELSE IF formatLength(types[i]) > formatLength(p)
    THEN SubSeq(types, 1, i - 1) \o <<p>> \o SubSeq(types, i, Len(types))
    ELSE insertByFormatLength(types, p, i + 1)

RECURSIVE sortByFormatLengthDescending(_, _, _)
\* faulty variant: the comparison reversed, the longest first
sortByFormatLengthDescending(types, i, sorted) ==
    IF i > Len(types) THEN sorted
    ELSE sortByFormatLengthDescending(types, i + 1,
             IF sorted # <<>> /\ formatLength(types[i]) > formatLength(sorted[1])
             THEN <<types[i]>> \o sorted ELSE Append(sorted, types[i]))

RECURSIVE sortByFormatLength(_, _, _)
\* .sort((a, b) => a.format().length - b.format().length): a stable sort
sortByFormatLength(types, i, sorted) ==
    IF i > Len(types) THEN sorted
    ELSE sortByFormatLength(types, i + 1, insertByFormatLength(sorted, types[i], 1))

\* the consistent results, the shortest first
validResults(results) == sortByFormatLength(consistentFirsts(results, 1), 1, <<>>)

\* the array of the best of the valid results, undefined if there is none
bestResult(valid) == IF Len(valid) = 0 THEN Undefined ELSE Defined(ArrayT(valid[1]))

\* the array by the results of the three interpretations: none if the static
\* interpretation failed
arrayOfResults(assumingLength, assumingNoLength, assumingStatic) ==
    IF ~assumingStatic.ok THEN Undefined
    ELSE bestResult(validResults(allResults(assumingLength, assumingNoLength, assumingStatic)))

\* a dynamic variable of declared length > 0 that is no bytestring: an array
resolveArray(data, length, isTrailing) ==
    arrayOfResults(decodedAssumingLength(data, length), decodedAssumingNoLength(data, length),
                   decodedAssumingStatic(data, length, isTrailing))

\* the tuple of the params, undefined if there are none
tupleOfParams(params) == IF ~params.ok THEN Undefined ELSE Defined(TupleT(params.list))

\* a dynamic variable without a length: a simple tuple or a static array
resolveTuple(data) ==
    tupleOfParams(decodeWellFormedTuple(EntryFrame(data, Len(data), Null, "null")))

\* resolve the idx-th (1-based) of the collected params
maybeResolveDynamicParam(f, idx) ==
    LET param == f.collectedParams[idx]
        data == dynamicData(f, idx)
    IN  IF ~param.dyn THEN Defined(param.type)
        ELSE IF param.length = Null THEN resolveTuple(data)
        ELSE IF param.length = 0 THEN Defined(EmptyArrayT)
        ELSE IF isByteString(param.length, data) THEN Defined(BytesT)
        ELSE resolveArray(data, param.length, isTrailingDynamicParam(f, idx))

RECURSIVE finalParams(_, _, _), finalParamsNext(_, _, _, _)
\* the loop that resolves the params from the i-th on
finalParams(f, i, acc) ==
    IF i > Len(f.collectedParams) THEN Params(acc)
    ELSE finalParamsNext(f, i, acc, maybeResolveDynamicParam(f, i))

\* the loop stops at the first param that could not be resolved
finalParamsNext(f, i, acc, decoded) ==
    IF ~decoded.ok THEN NoParams ELSE finalParams(f, i + 1, Append(acc, decoded.type))

\* the params if they decode the data, null otherwise
testedParams(params, data) == IF testParams(params, data) THEN params ELSE NoParams

\* the end of the static calldata is reached: resolve the dynamic variables
resolveFrame(f) ==
    IF lengthMismatch(f) THEN NoParams ELSE testedParams(finalParams(f, 1, <<>>), f.data)

\* decode a well formed tuple using backtracking
decodeWellFormedTuple(f) ==
    IF inStaticRegion(f)
    THEN LET withLength == decodeWellFormedTuple(dynamicFrame(f, maybeLength(f)))
             noLength == decodeWellFormedTuple(dynamicFrame(f, Null))
             static == decodeWellFormedTuple(staticFrame(f))
         IN  IF mayHaveLength(f) /\ testParams(withLength, f.data) THEN withLength
             ELSE IF mayHaveNoLength(f) /\ testParams(noLength, f.data) THEN noLength
             ELSE IF ~mayBeStatic(f) THEN NoParams
             ELSE IF testParams(static, f.data) THEN static
             ELSE NoParams
    ELSE resolveFrame(f)


(***************************************************************************)
(* Post-refinement and the exported functions                              *)
(***************************************************************************)

\* what a failed property access throws (components or arrayChildren of a
\* descriptor that has none); it is carried up as the result
TypeErrorT == ParamType("TypeError", <<>>)

HasTypeError(types) == \E i \in 1..Len(types) : types[i] = TypeErrorT

RECURSIVE mergeTypes(_)
\* the common type of descriptors that should agree
mergeTypes(types) ==
    IF Len(types) = 0 THEN TupleT(<<>>)
    ELSE IF HasTypeError(types) THEN TypeErrorT
    ELSE IF \E v \in 1..Len(types) : types[v].base = "tuple"
    THEN IF types[1].base # "tuple" THEN TypeErrorT
         ELSE IF \E v \in 1..Len(types) :
                     types[v].base # "tuple" /\ Len(types[1].kids) > 0 THEN TypeErrorT
         ELSE LET componentTypes ==
                      [i \in 1..Len(types[1].kids) |->
                          mergeTypes([v \in 1..Len(types) |->
                              IF i <= Len(types[v].kids) THEN types[v].kids[i] ELSE TypeErrorT])]
              IN  IF HasTypeError(componentTypes) THEN TypeErrorT ELSE TupleT(componentTypes)
    ELSE IF \E v \in 1..Len(types) : types[v].base = "array"
    THEN IF \E v \in 1..Len(types) : types[v].base # "array" THEN TypeErrorT
         ELSE LET merged == mergeTypes([v \in 1..Len(types) |-> types[v].kids[1]])
              IN  IF merged = TypeErrorT THEN TypeErrorT ELSE ArrayT(merged)
    ELSE LET set == {format(types[v]) : v \in 1..Len(types)}
         IN  IF Cardinality(set) = 1 THEN types[1]
             ELSE IF <<"bytes">> \in set THEN BytesT
             ELSE IF <<"uint256">> \in set THEN Uint256T
             ELSE Bytes32T

\* faulty variant: no lower bound on the leading zeros of an address
prettyBytes32NoLowerBound(val) ==
    LET leadingZeros == countLeadingZeros(val)
        trailingZeros == countTrailingZeros(val)
    IN  IF leadingZeros <= 17 THEN AddressT
        ELSE IF leadingZeros > 16 THEN Uint256T
        ELSE IF trailingZeros > 0 THEN FixedBytesT(32 - trailingZeros)
        ELSE Bytes32T

\* faulty variant: the address range ends at 16
prettyBytes32Upto16(val) ==
    LET leadingZeros == countLeadingZeros(val)
        trailingZeros == countTrailingZeros(val)
    IN  IF leadingZeros >= 12 /\ leadingZeros <= 16 THEN AddressT
        ELSE IF leadingZeros > 16 THEN Uint256T
        ELSE IF trailingZeros > 0 THEN FixedBytesT(32 - trailingZeros)
        ELSE Bytes32T

\* the refinement of a bytes32 by the shape of its value
prettyBytes32(val) ==
    LET leadingZeros == countLeadingZeros(val)
        trailingZeros == countTrailingZeros(val)
    IN  IF leadingZeros >= 12 /\ leadingZeros <= 17 THEN AddressT
        ELSE IF leadingZeros > 16 THEN Uint256T
        ELSE IF trailingZeros > 0 THEN FixedBytesT(32 - trailingZeros)
        ELSE Bytes32T

\* the refinement of a bytes by whether its value is UTF-8 text
prettyBytes(val) == IF Utf8Valid(val) THEN StringT ELSE BytesT

RECURSIVE prettyType(_, _)
\* the refinement of one descriptor by its decoded value
prettyType(param, val) ==
    IF param.base = "bytes32" THEN prettyBytes32(val)
    ELSE IF param.base = "bytes" THEN prettyBytes(val)
    ELSE IF param.base = "array"
    THEN LET merged == mergeTypes([c \in 1..Len(val) |-> prettyType(param.kids[1], val[c])])
         IN  IF merged = TypeErrorT THEN TypeErrorT ELSE ArrayT(merged)
    ELSE IF param.base = "tuple"
    THEN LET components == [i \in 1..Len(param.kids) |-> prettyType(param.kids[i], val[i])]
         IN  IF HasTypeError(components) THEN TypeErrorT ELSE TupleT(components)
    ELSE param

prettyTypes(params, vals) == [idx \in 1..Len(params) |-> prettyType(params[idx], vals[idx])]

\* the outcomes of guessAbiEncodedData: null, a list of types, or an exception
GuessNull == [ok |-> FALSE, list |-> <<>>, threw |-> FALSE]
GuessThrew == [ok |-> FALSE, list |-> <<>>, threw |-> TRUE]
GuessTypes(list) == [ok |-> TRUE, list |-> list, threw |-> FALSE]

\* bytes.length of a BytesLike: the number of bytes of a byte array, the number
\* of characters of a hex string ("0x" and two digits a byte)
BytesLikeLength(form, bytes) == IF form = "hex" THEN 2 + 2 * Len(bytes) ELSE Len(bytes)

\* the first call of the decoder on the input
guessEntryFrame(form, bytes) ==
    EntryFrame(bytes, BytesLikeLength(form, bytes), Null, "null")

\* the list of refined types, or the exception of a property access in it
guessOfPretty(pretty) == IF HasTypeError(pretty) THEN GuessThrew ELSE GuessTypes(pretty)

\* prettyTypes(params, Array.from(<decoded>)), the decoding may throw
guessOfDecoded(params, decoded) ==
    IF ~decoded.ok THEN GuessThrew ELSE guessOfPretty(prettyTypes(params, decoded.val))

\* let's clean it up
guessOfParams(params, bytes) ==
    IF ~params.ok THEN GuessNull ELSE guessOfDecoded(params.list, AbiDecode(params.list, bytes))

guessAbiEncodedData(form, bytes) ==
    guessOfParams(decodeWellFormedTuple(guessEntryFrame(form, bytes)), bytes)

HexDigits == <<"0", "1", "2", "3", "4", "5", "6", "7", "8", "9", "a", "b", "c", "d", "e", "f">>

RECURSIVE hexDigitsFrom(_, _)
\* hexlify(bytes).substring(2): two lowercase digits a byte
hexDigitsFrom(bytes, i) ==
    IF i > Len(bytes) THEN <<>>
    ELSE <<HexDigits[(bytes[i] \div 16) + 1], HexDigits[(bytes[i] % 16) + 1]>>
             \o hexDigitsFrom(bytes, i + 1)

\* the outcomes of guessFragment: null, a fragment (its name as "guessed_" and
\* the characters that follow it, and its inputs), or an exception
FragmentNull == [ok |-> FALSE, name |-> <<>>, inputs |-> <<>>, threw |-> FALSE]
FragmentThrew == [ok |-> FALSE, name |-> <<>>, inputs |-> <<>>, threw |-> TRUE]
Fragment(name, inputs) == [ok |-> TRUE, name |-> name, inputs |-> inputs, threw |-> FALSE]

\* the bytes after the selector
tupleData(bytes) == Slice(bytes, 4, Len(bytes))

\* faulty variant: the text of all the calldata
selectorOfAllBytes(bytes) == hexDigitsFrom(bytes, 1)

\* the selector as text
selector(bytes) == hexDigitsFrom(Slice(bytes, 0, 4), 1)

\* FunctionFragment.from(`guessed_${selector}(${formatParams(params)})`)
fragmentOfParams(calldata, params) ==
    IF params.threw THEN FragmentThrew
    ELSE IF ~params.ok THEN FragmentNull
    ELSE Fragment(<<"guessed_">> \o selector(calldata), params.list)

guessFragment(calldata) ==
    IF Len(calldata) = 0 THEN FragmentNull
    ELSE fragmentOfParams(calldata, guessAbiEncodedData("bytes", tupleData(calldata)))


(***************************************************************************)
(* The inputs                                                              *)
(***************************************************************************)

\* the most words of a buffer made of any words
MaxWords == 2

\* the most words that follow the offset and the length of a buffer with one
\* dynamic variable
MaxPayloadWords == 3

\* the word of a small unsigned integer
UintWord(n) == Zeros(31) \o <<n>>

\* the word that starts with the given bytes, right-padded with zeros
TextWord(bytes) == bytes \o Zeros(WordSize - Len(bytes))

\* a word with lz leading zero bytes and tz trailing zero bytes, lz + tz < 32
ShapedWord(lz, tz) == Zeros(lz) \o [i \in 1..(WordSize - lz - tz) |-> 129] \o Zeros(tz)

\* the words of the dynamic part of a buffer: lengths, offsets and a short text
PayloadWords ==
    {UintWord(0), UintWord(1), UintWord(32), TextWord(<<97>>)}

\* the words of a buffer: the above, one more length, an address, and a word
\* that is no UTF-8 text
Words ==
    PayloadWords \cup {UintWord(2), UintWord(64), ShapedWord(12, 0), TextWord(<<255, 97>>)}

\* the bytes that may follow the last whole word
Tails == {<<>>, <<0, 32>>}

RECURSIVE Concat(_, _)
\* the bytes of a sequence of words, from the i-th on
Concat(words, i) == IF i > Len(words) THEN <<>> ELSE words[i] \o Concat(words, i + 1)

WordSeqs(alphabet, max) == UNION {[1..n -> alphabet] : n \in 0..max}

\* every buffer of at most MaxWords words, with a tail
FreeBuffers == {Concat(ws, 1) \o t : ws \in WordSeqs(Words, MaxWords), t \in Tails}

\* every buffer of one offset, a length of 0, 1 or 2 and at most MaxPayloadWords
\* words after it
DynamicBuffers ==
    {UintWord(32) \o UintWord(length) \o Concat(ws, 1) :
        length \in 0..2, ws \in WordSeqs(PayloadWords, MaxPayloadWords)}

\* every one-word buffer by the number of its leading and trailing zero bytes
ShapedBuffers ==
    {ShapedWord(lz, tz) : lz \in 0..31, tz \in 0..31} \cup {Zeros(WordSize)}

\* the buffers of larger layouts: string[] of two texts, two dynamic variables
\* (an array of two empty arrays before an empty one), bytes that are no text,
\* an array of three words, an array of two (word, bytes) tuples
LayoutBuffers ==
    { Concat(<<UintWord(32), UintWord(2), UintWord(64), UintWord(128), UintWord(1),
               TextWord(<<97>>), UintWord(2), TextWord(<<98, 98>>)>>, 1),
      Concat(<<UintWord(64), UintWord(192), UintWord(2), UintWord(64), UintWord(64),
               UintWord(0), UintWord(0)>>, 1),
      Concat(<<UintWord(32), UintWord(5), TextWord(<<255, 254, 253, 252, 251>>)>>, 1),
      Concat(<<UintWord(32), UintWord(5), TextWord(<<104, 101, 108, 108, 111>>)>>, 1),
      Concat(<<UintWord(32), UintWord(3), UintWord(1), UintWord(2), UintWord(3)>>, 1),
      Concat(<<ShapedWord(12, 0), UintWord(42)>>, 1),
      Concat(<<UintWord(32), UintWord(2), UintWord(64), UintWord(192),
               UintWord(7), UintWord(64), UintWord(1), TextWord(<<97>>),
               UintWord(9), UintWord(64), UintWord(1), TextWord(<<255>>)>>, 1) }

Inputs ==
    FreeBuffers \cup DynamicBuffers \cup LayoutBuffers
        \cup {b \in ShapedBuffers : Len(b) = WordSize}

\* the bytes put before a buffer to make calldata
Selectors == {<<>>, <<171>>, <<222, 173, 190, 239>>, <<0, 1, 2, 255, 0, 0>>}

(***************************************************************************)
(* The state machine                                                       *)
(***************************************************************************)

VARIABLES
    bytes,      \* the input buffer
    pc,         \* "ready", "decoding", "returned", "guessed" or "fragment"
    form,       \* how the input is passed: "bytes" (a byte array) or "hex" (a hex string)
    depth,      \* the depth of the current call of the decoder
    frame,      \* the arguments of the current call of the decoder
    final,      \* finalParams: the params of the current call resolved so far
    ret,        \* what the current call returned
    guess,      \* what guessAbiEncodedData returned
    calldata,   \* the argument of guessFragment
    fragment    \* what guessFragment returned

vars == <<bytes, pc, form, depth, frame, final, ret, guess, calldata, fragment>>

Init ==
    /\ bytes \in Inputs
    /\ pc = "ready"
    /\ form = "bytes"
    /\ depth = 0
    /\ frame = EntryFrame(<<>>, 0, Null, "null")
    /\ final = <<>>
    /\ ret = NoParams
    /\ guess = GuessNull
    /\ calldata = <<>>
    /\ fragment = FragmentNull

\* the branch that takes the slot as a dynamic variable with a length is accepted
withLengthAccepted(f) ==
    mayHaveLength(f)
        /\ testParams(decodeWellFormedTuple(dynamicFrame(f, maybeLength(f))), f.data)

\* the branch that takes the slot as a dynamic variable without a length is accepted
noLengthAccepted(f) ==
    mayHaveNoLength(f) /\ testParams(decodeWellFormedTuple(dynamicFrame(f, Null)), f.data)

\* the current call has reached the end of the static calldata with the expected
\* number of params and resolves them
atResolution == pc = "decoding" /\ ~inStaticRegion(frame) /\ ~lengthMismatch(frame)

\* the index of the param the loop resolves next, and whether there is one
nextIdx == Len(final) + 1

resolvingParam == atResolution /\ nextIdx <= Len(frame.collectedParams)

\* the param that is resolved next is a dynamic variable taken as an array
resolvingArray ==
    /\ resolvingParam
    /\ frame.collectedParams[nextIdx].dyn
    /\ frame.collectedParams[nextIdx].length # Null
    /\ frame.collectedParams[nextIdx].length # 0
    /\ ~isByteString(frame.collectedParams[nextIdx].length, dynamicData(frame, nextIdx))

\* guessAbiEncodedData calls the decoder on its input
Enter ==
    /\ pc = "ready"
    /\ \E fm \in {"bytes", "hex"} :
          /\ form' = fm
          /\ frame' = guessEntryFrame(fm, bytes)
    /\ pc' = "decoding"
    /\ UNCHANGED <<bytes, depth, final, ret, guess, calldata, fragment>>

\* the call recurses: the slot is a dynamic variable with a length
TakeDynamicWithLength ==
    /\ pc = "decoding"
    /\ inStaticRegion(frame)
    /\ mayHaveLength(frame)
    /\ frame' = dynamicFrame(frame, maybeLength(frame))
    /\ UNCHANGED <<bytes, pc, form, depth, final, ret, guess, calldata, fragment>>

\* the call recurses, the branch before was not accepted: the slot is a dynamic
\* variable without a length
TakeDynamicNoLength ==
    /\ pc = "decoding"
    /\ inStaticRegion(frame)
    /\ ~withLengthAccepted(frame)
    /\ mayHaveNoLength(frame)
    /\ frame' = dynamicFrame(frame, Null)
    /\ UNCHANGED <<bytes, pc, form, depth, final, ret, guess, calldata, fragment>>

\* the call recurses, no branch before was accepted: the slot is a static word
TakeStatic ==
    /\ pc = "decoding"
    /\ inStaticRegion(frame)
    /\ ~withLengthAccepted(frame)
    /\ ~noLengthAccepted(frame)
    /\ mayBeStatic(frame)
    /\ frame' = staticFrame(frame)
    /\ UNCHANGED <<bytes, pc, form, depth, final, ret, guess, calldata, fragment>>

\* finalParams.push(decoded)
PushDecoded(decoded) == decoded.ok /\ final' = Append(final, decoded.type)

\* the loop of the resolution resolves one more param
ResolveParam ==
    /\ resolvingParam
    /\ PushDecoded(maybeResolveDynamicParam(frame, nextIdx))
    /\ UNCHANGED <<bytes, pc, form, depth, frame, ret, guess, calldata, fragment>>

\* the resolution of a dynamic variable without a length calls the decoder on its data
DescendTuple ==
    /\ resolvingParam
    /\ frame.collectedParams[nextIdx].dyn
    /\ frame.collectedParams[nextIdx].length = Null
    /\ frame' = EntryFrame(dynamicData(frame, nextIdx), Len(dynamicData(frame, nextIdx)),
                           Null, "null")
    /\ depth' = depth + 1
    /\ final' = <<>>
    /\ UNCHANGED <<bytes, pc, form, ret, guess, calldata, fragment>>

\* the resolution of an array calls the decoder on its data, the elements taken as
\* dynamic variables with a length ("true") or without ("false")
DescendArrayDynamic ==
    /\ resolvingArray
    /\ \E isDynamicArrayElement \in {"true", "false"} :
          frame' = EntryFrame(dynamicData(frame, nextIdx), Len(dynamicData(frame, nextIdx)),
                              frame.collectedParams[nextIdx].length, isDynamicArrayElement)
    /\ depth' = depth + 1
    /\ final' = <<>>
    /\ UNCHANGED <<bytes, pc, form, ret, guess, calldata, fragment>>

\* the resolution of an array calls the decoder on one of its elements taken as
\* static, the elements before it decoded
DescendArrayStatic ==
    /\ resolvingArray
    /\ LET data == dynamicData(frame, nextIdx)
           length == frame.collectedParams[nextIdx].length
       IN  /\ ~(unevenDynamicData(data, length) /\ ~isTrailingDynamicParam(frame, nextIdx))
           /\ \E elemIdx \in 0..(length - 1) :
                 /\ \A k \in 0..(elemIdx - 1) : staticElement(data, length, k).ok
                 /\ frame' = staticElementFrame(data, length, elemIdx)
    /\ depth' = depth + 1
    /\ final' = <<>>
    /\ UNCHANGED <<bytes, pc, form, ret, guess, calldata, fragment>>

\* the current call returns
Return ==
    /\ pc = "decoding"
    /\ ret' = decodeWellFormedTuple(frame)
    /\ pc' = "returned"
    /\ UNCHANGED <<bytes, form, depth, frame, final, guess, calldata, fragment>>

\* guessAbiEncodedData on the input, passed as a byte array or as a hex string
GuessAbiEncodedData ==
    /\ pc = "ready"
    /\ \E fm \in {"bytes", "hex"} :
          /\ form' = fm
          /\ guess' = guessAbiEncodedData(fm, bytes)
    /\ pc' = "guessed"
    /\ UNCHANGED <<bytes, depth, frame, final, ret, calldata, fragment>>

\* guessFragment on the input after a selector
GuessFragment ==
    /\ pc = "ready"
    /\ \E sel \in Selectors :
          /\ calldata' = sel \o bytes
          /\ fragment' = guessFragment(sel \o bytes)
    /\ pc' = "fragment"
    /\ UNCHANGED <<bytes, form, depth, frame, final, ret, guess>>

Next ==
    \/ Enter
    \/ TakeDynamicWithLength
    \/ TakeDynamicNoLength
    \/ TakeStatic
    \/ ResolveParam
    \/ DescendTuple
    \/ DescendArrayDynamic
    \/ DescendArrayStatic
    \/ Return
    \/ GuessAbiEncodedData
    \/ GuessFragment

Spec == Init /\ [][Next]_vars


(***************************************************************************)
(* Properties                                                              *)
(***************************************************************************)

\* the number of zero bytes before the first non-zero byte of a word
LeadingZeroBytes(w) ==
    CHOOSE n \in 0..Len(w) : (\A i \in 1..n : w[i] = 0) /\ (n = Len(w) \/ w[n + 1] # 0)

\* the number of zero bytes after the last non-zero byte of a word
TrailingZeroBytes(w) ==
    CHOOSE n \in 0..Len(w) :
        (\A i \in (Len(w) - n + 1)..Len(w) : w[i] = 0) /\ (n = Len(w) \/ w[Len(w) - n] # 0)

\* C1 (round-trip soundness): whenever guessAbiEncodedData returns a list of
\* types for a buffer, the list after the refinement, the codec decodes the
\* buffer as that list.
C1_RoundTripSoundness ==
    pc = "guessed" /\ guess.ok => AbiDecode(guess.list, bytes).ok

\* a list was returned that the refinement changed: it holds a string, an address
\* or a uint256 where the decoder had bytes or bytes32
C1_Witness ==
    /\ pc = "guessed"
    /\ guess.ok
    /\ Len(guess.list) = 2
    /\ guess.list # decodeWellFormedTuple(guessEntryFrame(form, bytes)).list

\* the lowercase hex digits of the first four bytes of c (of all of c if shorter)
C2_HexOfSelector(c) ==
    [i \in 1..(2 * Min(4, Len(c))) |->
        IF i % 2 = 1 THEN HexDigits[(c[(i + 1) \div 2] \div 16) + 1]
        ELSE HexDigits[(c[i \div 2] % 16) + 1]]

\* c[4..]: the bytes of c after the first four
C2_AfterSelector(c) == [i \in 1..(Len(c) - 4) |-> c[i + 4]]

\* C2 (selector preservation): guessFragment(c) returns nothing iff c is empty or
\* guessAbiEncodedData(c[4..]) is null; otherwise the fragment is named guessed_
\* and the lowercase hex of c[0..4], and its inputs are guessAbiEncodedData(c[4..]).
C2_SelectorPreservation ==
    pc = "fragment" =>
        LET params == guessAbiEncodedData("bytes", C2_AfterSelector(calldata))
        IN  /\ ~fragment.threw
            /\ ~fragment.ok <=> (Len(calldata) = 0 \/ ~params.ok)
            /\ fragment.ok =>
                  /\ fragment.name = <<"guessed_">> \o C2_HexOfSelector(calldata)
                  /\ fragment.inputs = params.list

\* a fragment with inputs was returned for calldata with a selector whose bytes
\* have digits above 9
C2_Witness ==
    /\ pc = "fragment"
    /\ fragment.ok
    /\ Len(fragment.inputs) > 0
    /\ fragment.name = <<"guessed_", "d", "e", "a", "d", "b", "e", "e", "f">>

\* C3 (length-consistency): a call of the decoder with an expected length k
\* returns null or a list of exactly k types.
C3_LengthConsistency ==
    pc = "returned" /\ frame.expectedLength # Null /\ ret.ok
        => Len(ret.list) = frame.expectedLength

\* a call with an expected length of 2 returned a list
C3_Witness ==
    pc = "returned" /\ frame.expectedLength = 2 /\ ret.ok /\ frame.paramIdx = 0


\* the descriptors of a list all have the same text
C4_FormatIdentically(list) ==
    Len(list) > 0 /\ \A i, j \in 1..Len(list) : format(list[i]) = format(list[j])

\* the candidates of the array that is resolved next: a (elements dynamic with a
\* length), b (dynamic without a length) and c (static), in this order
C4_Candidates ==
    LET data == dynamicData(frame, nextIdx)
        length == frame.collectedParams[nextIdx].length
    IN  << decodedAssumingLength(data, length), decodedAssumingNoLength(data, length),
           decodedAssumingStatic(data, length, isTrailingDynamicParam(frame, nextIdx)) >>

\* the k-th candidate exists and its element descriptors format identically
C4_Consistent(k) == C4_Candidates[k].ok /\ C4_FormatIdentically(C4_Candidates[k].list)

\* the length of the text of the element type of the k-th candidate
C4_Length(k) == formatLength(C4_Candidates[k].list[1])

\* C4 (array homogeneity and ranking): when the resolution of an array emits T[],
\* T is the element type of a candidate whose element descriptors all format
\* identically, and no consistent candidate has a shorter text, nor an earlier
\* one (in the order a, b, c) a text of the same length.
C4_ArrayRanking ==
    resolvingArray /\ maybeResolveDynamicParam(frame, nextIdx).ok =>
        \E k \in 1..3 :
            /\ C4_Consistent(k)
            /\ maybeResolveDynamicParam(frame, nextIdx).type = ArrayT(C4_Candidates[k].list[1])
            /\ \A j \in 1..3 :
                  C4_Consistent(j) =>
                      \/ C4_Length(j) > C4_Length(k)
                      \/ C4_Length(j) = C4_Length(k) /\ j >= k

\* an array is emitted where a candidate is inconsistent and two consistent
\* candidates have texts of different lengths
C4_Witness ==
    /\ resolvingArray
    /\ maybeResolveDynamicParam(frame, nextIdx).ok
    /\ \E k \in 1..3 : C4_Candidates[k].ok /\ ~C4_Consistent(k)
    /\ \E j, k \in 1..3 : C4_Consistent(j) /\ C4_Consistent(k) /\ C4_Length(j) < C4_Length(k)


\* the refinement table of a bytes32 by its leading (lz) and trailing (tz) zero bytes
C5_Table(lz, tz) ==
    IF lz >= 12 /\ lz <= 17 THEN <<"address">>
    ELSE IF lz > 17 THEN <<"uint256">>
    ELSE IF tz > 0 THEN <<FixedBytesNames[32 - tz]>>
    ELSE <<"bytes32">>

\* C5 (bytes32 refinement table): a buffer of one word w is guessed as one type:
\* address iff 12 <= lz <= 17, uint256 iff lz > 17 (the zero word included),
\* otherwise bytesN with N = 32 - tz in 1..31 when tz > 0, otherwise bytes32.
C5_Bytes32Refinement ==
    pc = "guessed" /\ form = "bytes" /\ Len(bytes) = WordSize =>
        /\ guess.ok
        /\ Len(guess.list) = 1
        /\ format(guess.list[1]) = C5_Table(LeadingZeroBytes(bytes), TrailingZeroBytes(bytes))
        /\ guess.list[1].base = "address" <=>
               (LeadingZeroBytes(bytes) >= 12 /\ LeadingZeroBytes(bytes) <= 17)
        /\ LeadingZeroBytes(bytes) < 12 /\ TrailingZeroBytes(bytes) > 0 =>
               \E n \in 1..31 : guess.list[1] = FixedBytesT(n) /\ n = 32 - TrailingZeroBytes(bytes)

\* a word with 17 leading zero bytes was guessed as an address
C5_Witness ==
    /\ pc = "guessed"
    /\ form = "bytes"
    /\ Len(bytes) = WordSize
    /\ LeadingZeroBytes(bytes) = 17
    /\ guess.list = <<AddressT>>

\* C6 (local failure in array resolution): the resolution of an array fails only
\* if no interpretation yields a consistent candidate; when the interpretation as
\* dynamic elements with a length (a) or without (b) yields a consistent candidate,
\* the resolution returns an array whatever happens in the static interpretation.
C6_StaticFailureIsLocal ==
    resolvingArray /\ (C4_Consistent(1) \/ C4_Consistent(2)) =>
        /\ maybeResolveDynamicParam(frame, nextIdx).ok
        /\ maybeResolveDynamicParam(frame, nextIdx).type.base = "array"

\* C7 (entry frame): guessAbiEncodedData starts the decoder at param 0 with no
\* collected param and the end of the static calldata at the number of bytes of
\* the data, so that a hex string is guessed as the byte array of the same bytes.
C7_EntryFrame ==
    /\ pc = "decoding" /\ depth = 0 /\ frame.paramIdx = 0 =>
          /\ frame.collectedParams = <<>>
          /\ frame.endOfStaticCalldata = Len(bytes)
    /\ pc = "guessed" => guess = guessAbiEncodedData("bytes", bytes)

\* C8 (placeholder well-formedness): in every call of the decoder, the i-th
\* collected param (slot position 32 * (i - 1)), when a placeholder, has an offset
\* after its slot, inside the buffer and a multiple of 32; its length, when
\* present, is a safe non-negative integer with offset + 32 + length inside the
\* buffer.
C8_PlaceholderWellFormed ==
    pc = "decoding" =>
        \A i \in 1..Len(frame.collectedParams) :
            LET p == frame.collectedParams[i]
            IN  p.dyn =>
                    /\ 32 * (i - 1) < p.offset
                    /\ p.offset < Len(frame.data)
                    /\ p.offset % 32 = 0
                    /\ p.length # Null =>
                          /\ p.length >= 0
                          /\ p.length < Huge
                          /\ isSafeNumber(Slice(frame.data, p.offset, p.offset + WordSize))
                          /\ p.offset + 32 + p.length <= Len(frame.data)

\* a call on a buffer that ends with a partial word holds a placeholder whose
\* length reaches the end of the buffer
C8_Witness ==
    /\ pc = "decoding"
    /\ Len(frame.data) % 32 # 0
    /\ \E i \in 1..Len(frame.collectedParams) :
          /\ frame.collectedParams[i].dyn
          /\ frame.collectedParams[i].length > 0
          /\ frame.collectedParams[i].offset + 32 + frame.collectedParams[i].length
                 = Len(frame.data)

\* the slot of the call admits a dynamic branch that the call is allowed to take
C9_PermittedDynamicBranch ==
    /\ tryParseOffset(frame.data, 32 * frame.paramIdx) # Null
    /\ frame.isDynamicArrayElement = "true" =>
          tryParseLength(frame.data, tryParseOffset(frame.data, 32 * frame.paramIdx)) # Null

\* C9 (array-element uniformity): a call for the elements of an array collects
\* only placeholders, all with a length ("true") or all without ("false"), never a
\* static bytes32, and returns null at a slot that admits no permitted dynamic
\* branch.
C9_ElementUniformity ==
    /\ pc \in {"decoding", "returned"} /\ frame.isDynamicArrayElement # "null" =>
          \A i \in 1..Len(frame.collectedParams) :
              /\ frame.collectedParams[i].dyn
              /\ (frame.collectedParams[i].length # Null)
                     <=> (frame.isDynamicArrayElement = "true")
    /\ /\ pc = "returned"
       /\ frame.isDynamicArrayElement # "null"
       /\ 32 * frame.paramIdx < frame.endOfStaticCalldata
       /\ ~C9_PermittedDynamicBranch
       => ~ret.ok

\* a call for elements with a length returned a list at the end of the static
\* calldata, two placeholders collected
C9_Witness ==
    /\ pc = "returned"
    /\ frame.isDynamicArrayElement = "true"
    /\ Len(frame.collectedParams) = 2
    /\ 32 * frame.paramIdx >= frame.endOfStaticCalldata
    /\ ret.ok

\* the payload of the placeholder that is resolved next: from its offset (after
\* its length word when it has a length) to the offset of the first later
\* placeholder, or to the end of the buffer
C10_Payload ==
    LET p == frame.collectedParams[nextIdx]
        later == {i \in (nextIdx + 1)..Len(frame.collectedParams) : frame.collectedParams[i].dyn}
        first == CHOOSE i \in later : \A j \in later : i <= j
        start == IF p.length = Null THEN p.offset ELSE p.offset + 32
        end == IF later = {} THEN Len(frame.data) ELSE frame.collectedParams[first].offset
    IN  [i \in 1..(end - start) |-> frame.data[start + i]]

\* the declared length is that of a bytestring with the payload
C10_ByteString(length, payload) ==
    \/ length = Len(payload)
    \/ Len(payload) % 32 = 0 /\ length = Len(payload) - TrailingZeroBytes(payload)

\* C10 (classification by length): a placeholder without a length resolves to the
\* tuple of the decoding of its payload; with length 0 to ()[]; with a length
\* L > 0 to bytes iff L is the length of the payload or the payload is whole words
\* and L its length less its trailing zero bytes; only otherwise to an array.
C10_Classification ==
    resolvingParam /\ frame.collectedParams[nextIdx].dyn =>
        LET length == frame.collectedParams[nextIdx].length
            decoded == maybeResolveDynamicParam(frame, nextIdx)
            nested == decodeWellFormedTuple(EntryFrame(C10_Payload, Len(C10_Payload), Null, "null"))
        IN  /\ length = Null => /\ decoded.ok <=> nested.ok
                                /\ decoded.ok => decoded.type = TupleT(nested.list)
            /\ length = 0 => decoded = Defined(EmptyArrayT)
            /\ length # Null /\ length > 0 =>
                  /\ (decoded.ok /\ decoded.type = BytesT) <=> C10_ByteString(length, C10_Payload)
                  /\ ~C10_ByteString(length, C10_Payload) =>
                        decoded = resolveArray(C10_Payload, length, isTrailingDynamicParam(frame, nextIdx))
                  /\ decoded.ok /\ decoded.type # BytesT => decoded.type.base = "array"

\* a placeholder that is not the last, with a length shorter than its payload of
\* whole words, is resolved to bytes
C10_Witness ==
    /\ resolvingParam
    /\ frame.collectedParams[nextIdx].dyn
    /\ frame.collectedParams[nextIdx].length # Null
    /\ frame.collectedParams[nextIdx].length > 0
    /\ frame.collectedParams[nextIdx].length < Len(C10_Payload)
    /\ maybeResolveDynamicParam(frame, nextIdx) = Defined(BytesT)
    /\ ~isTrailingDynamicParam(frame, nextIdx)

\* a step of the static walk of a call: the next slot of the same buffer, the end of
\* the static calldata no later than before
C11_WalkStep ==
    pc = "decoding" /\ depth' = depth /\ frame' # frame =>
        /\ frame'.paramIdx = frame.paramIdx + 1
        /\ frame'.endOfStaticCalldata <= frame.endOfStaticCalldata
        /\ frame'.data = frame.data
        /\ Len(frame'.collectedParams) = Len(frame.collectedParams) + 1

\* a call started by the resolution of a placeholder: a walk from slot 0 of a
\* buffer strictly shorter than the buffer of the call that started it
C11_NestedCall ==
    pc = "decoding" /\ depth' # depth =>
        /\ depth' = depth + 1
        /\ frame'.paramIdx = 0
        /\ frame'.collectedParams = <<>>
        /\ frame'.endOfStaticCalldata = Len(frame'.data)
        /\ Len(frame'.data) < Len(frame.data)

\* the static walk of a call has walked at most ceil(endOfStaticCalldata / 32) slots
C11_WalkBound ==
    pc \in {"decoding", "returned"} =>
        /\ 32 * frame.paramIdx < frame.endOfStaticCalldata + 32
        /\ Len(frame.collectedParams) = frame.paramIdx

\* the slots the static walk of the current call may still take
C11_SlotsLeft ==
    IF 32 * frame.paramIdx >= frame.endOfStaticCalldata THEN 0
    ELSE (frame.endOfStaticCalldata - 32 * frame.paramIdx + 31) \div 32

\* the variant of the search: the length of the buffer of the current call, then
\* the slots left to walk (twice, a walked slot adds a param to resolve) plus the
\* collected params left to resolve
C11_Variant ==
    <<Len(frame.data), 2 * C11_SlotsLeft + Len(frame.collectedParams) - Len(final)>>

\* every step of a call that does not return decreases the variant in the
\* lexicographic order, and the variant is never negative
C11_Decreases ==
    pc = "decoding" /\ pc' = "decoding" =>
        /\ C11_Variant'[2] >= 0
        /\ \/ C11_Variant'[1] < C11_Variant[1]
           \/ C11_Variant'[1] = C11_Variant[1] /\ C11_Variant'[2] < C11_Variant[2]

\* a call that returns returns params or null
C11_Returns == pc = "decoding" /\ pc' = "returned" => ret' \in {NoParams, Params(ret'.list)}

\* C11 (termination): every call of the decoder returns, with params or with
\* null, because every step decreases a variant that is never negative: each step
\* of the static walk of a call moves to the next slot while the end of the static
\* calldata does not grow, so that the walk takes at most
\* ceil(endOfStaticCalldata / 32) slots; and every call started by the resolution
\* of a placeholder runs on a buffer strictly shorter than that of its caller.
C11_Termination ==
    /\ [][C11_WalkStep /\ C11_NestedCall /\ C11_Decreases /\ C11_Returns]_vars
    /\ [](C11_WalkBound)

\* a call two levels below the entry call has walked a slot and returned
C11_Witness ==
    /\ pc = "returned"
    /\ depth >= 2
    /\ frame.paramIdx >= 1
    /\ Len(frame.data) >= WordSize

=============================================================================
